---- MODULE Spec2Model ----
(***************************************************************************)
(* The payment-slip pipeline of the bill-splitting assistant: an image     *)
(* event is scanned for a QR code, read by the slip extractor, matched     *)
(* against the payer's pending obligation and, within tolerance, settled.  *)
(*                                                                         *)
(* Source: imageService.js (src/unnamed/part_004), slipParser.js           *)
(* (src/test-db.js 31-141), the bill endpoint and the event dispatch of    *)
(* index.js (src/unnamed/part_000 is the revision of index.js that shares  *)
(* imageService.js's column names: id, member_id, amount_due, paid).       *)
(*                                                                         *)
(* Amounts are decimal numbers with two fraction digits, held as integer   *)
(* hundredths; arithmetic on them is done as the code does it, on the      *)
(* IEEE 754 binary64 values they denote as JavaScript Numbers.             *)
(***************************************************************************)
EXTENDS Integers, Sequences, FiniteSets, TLC

(* Naturals of any size: little-endian sequences of limbs in base 2^15,    *)
(* with no zero limb at the top; <<>> is 0.                                *)
LimbBase == 2^15

RECURSIVE BigNorm(_)
BigNorm(s) ==
    IF s = <<>> THEN <<>>
    ELSE IF s[Len(s)] = 0 THEN BigNorm(SubSeq(s, 1, Len(s) - 1)) ELSE s

RECURSIVE BigFromInt(_)
BigFromInt(n) ==
    IF n = 0 THEN <<>> ELSE <<n % LimbBase>> \o BigFromInt(n \div LimbBase)

RECURSIVE BigMulSmallFrom(_, _, _, _)
BigMulSmallFrom(s, k, i, carry) ==
    IF i > Len(s) THEN (IF carry = 0 THEN <<>> ELSE <<carry>>)
    ELSE LET p == s[i] * k + carry
         IN  <<p % LimbBase>> \o BigMulSmallFrom(s, k, i + 1, p \div LimbBase)

BigMulSmall(s, k) == IF k = 0 THEN <<>> ELSE BigMulSmallFrom(s, k, 1, 0)

(* <<quotient, remainder>> of s by a small k, from the top limb down       *)
RECURSIVE BigDivSmallFrom(_, _, _, _)
BigDivSmallFrom(s, k, i, rem) ==
    IF i = 0 THEN <<<<>>, rem>>
    ELSE LET cur  == rem * LimbBase + s[i]
             rest == BigDivSmallFrom(s, k, i - 1, cur % k)
         IN  <<rest[1] \o <<cur \div k>>, rest[2]>>

BigDivSmall(s, k) ==
    LET r == BigDivSmallFrom(s, k, Len(s), 0) IN <<BigNorm(r[1]), r[2]>>

RECURSIVE BigCmpFrom(_, _, _)
BigCmpFrom(s, t, i) ==
    IF i = 0 THEN 0
    ELSE IF s[i] > t[i] THEN 1
    ELSE IF s[i] < t[i] THEN -1
    ELSE BigCmpFrom(s, t, i - 1)

BigCmp(s, t) ==
    IF Len(s) > Len(t) THEN 1
    ELSE IF Len(s) < Len(t) THEN -1
    ELSE BigCmpFrom(s, t, Len(s))

BigLimb(s, i) == IF i <= Len(s) THEN s[i] ELSE 0

RECURSIVE BigAddFrom(_, _, _, _)
BigAddFrom(s, t, i, carry) ==
    IF i > Len(s) /\ i > Len(t) THEN (IF carry = 0 THEN <<>> ELSE <<carry>>)
    ELSE LET p == BigLimb(s, i) + BigLimb(t, i) + carry
         IN  <<p % LimbBase>> \o BigAddFrom(s, t, i + 1, p \div LimbBase)

BigAdd(s, t) == BigAddFrom(s, t, 1, 0)

(* s - t for s >= t *)
RECURSIVE BigSubFrom(_, _, _, _)
BigSubFrom(s, t, i, borrow) ==
    IF i > Len(s) THEN <<>>
    ELSE LET p == s[i] - BigLimb(t, i) - borrow
         IN  IF p < 0 THEN <<p + LimbBase>> \o BigSubFrom(s, t, i + 1, 1)
             ELSE <<p>> \o BigSubFrom(s, t, i + 1, 0)

BigSub(s, t) == BigNorm(BigSubFrom(s, t, 1, 0))

RECURSIVE BigMulFrom(_, _, _)
BigMulFrom(s, t, i) ==
    IF i > Len(t) THEN <<>>
    ELSE BigAdd(BigMulSmall(s, t[i]), <<0>> \o BigMulFrom(s, t, i + 1))

BigMul(s, t) == BigNorm(BigMulFrom(s, t, 1))

RECURSIVE BigShiftLeft(_, _)
BigShiftLeft(s, k) ==
    IF k = 0 \/ s = <<>> THEN s
    ELSE IF k >= 15 THEN BigShiftLeft(<<0>> \o s, k - 15)
    ELSE BigMulSmall(s, 2^k)

BigPow2(k) == BigShiftLeft(<<1>>, k)

BigOdd(s) == s # <<>> /\ s[1] % 2 = 1

(* IEEE 754 binary64, the JavaScript Number: [neg, m, e] is (-1)^neg * m * 2^e *)
(* with 2^52 <= m < 2^53, or m = 0 (subnormals and infinities do not arise in   *)
(* the amounts' range).                                                        *)
DZero == [neg |-> FALSE, m |-> <<>>, e |-> 0]

(* round-to-nearest, ties-to-even, of n * 2^e (+ a nonzero tail when sticky) *)
RECURSIVE DRound(_, _, _, _)
DRound(neg, n, e, sticky) ==
    IF n = <<>> THEN DZero
    ELSE IF BigCmp(n, BigPow2(68)) >= 0
         THEN DRound(neg, SubSeq(n, 2, Len(n)), e + 15, sticky \/ n[1] # 0)
    ELSE IF BigCmp(n, BigPow2(54)) >= 0
         THEN LET qr == BigDivSmall(n, 2)
              IN  DRound(neg, qr[1], e + 1, sticky \/ qr[2] = 1)
    ELSE IF BigCmp(n, BigPow2(53)) >= 0
         THEN LET qr == BigDivSmall(n, 2)
                  up == qr[2] = 1 /\ (sticky \/ BigOdd(qr[1]))
                  q  == IF up THEN BigAdd(qr[1], <<1>>) ELSE qr[1]
              IN  IF BigCmp(q, BigPow2(53)) >= 0
                  THEN [neg |-> neg, m |-> BigPow2(52), e |-> e + 2]
                  ELSE [neg |-> neg, m |-> q, e |-> e + 1]
    ELSE IF BigCmp(n, BigPow2(52)) >= 0
         THEN [neg |-> neg, m |-> n, e |-> e]
    ELSE DRound(neg, BigMulSmall(n, 2), e - 1, sticky)

DNeg(x) == IF x.m = <<>> THEN x ELSE [x EXCEPT !.neg = ~x.neg]

(* the Number nearest to c / 100, c an integer *)
DFromHundredths(c) ==
    IF c = 0 THEN DZero
    ELSE LET a  == IF c < 0 THEN -c ELSE c
             qr == BigDivSmall(BigShiftLeft(BigFromInt(a), 61), 100)
         IN  DRound(c < 0, qr[1], -61, qr[2] # 0)

DMul(x, y) ==
    IF x.m = <<>> \/ y.m = <<>> THEN DZero
    ELSE DRound(x.neg # y.neg, BigMul(x.m, y.m), x.e + y.e, FALSE)

DMagCmp(x, y) ==
    IF x.m = <<>> THEN (IF y.m = <<>> THEN 0 ELSE -1)
    ELSE IF y.m = <<>> THEN 1
    ELSE IF x.e > y.e THEN 1
    ELSE IF x.e < y.e THEN -1
    ELSE BigCmp(x.m, y.m)

DAdd(x, y) ==
    IF x.m = <<>> THEN y
    ELSE IF y.m = <<>> THEN x
    ELSE LET e  == IF x.e < y.e THEN x.e ELSE y.e
             X  == BigShiftLeft(x.m, x.e - e)
             Y  == BigShiftLeft(y.m, y.e - e)
         IN  IF x.neg = y.neg THEN DRound(x.neg, BigAdd(X, Y), e, FALSE)
             ELSE IF BigCmp(X, Y) >= 0 THEN DRound(x.neg, BigSub(X, Y), e, FALSE)
             ELSE DRound(y.neg, BigSub(Y, X), e, FALSE)

DSub(x, y) == DAdd(x, DNeg(y))

DAbs(x) == [x EXCEPT !.neg = FALSE]

(* x > y *)
DGt(x, y) ==
    IF x.neg /\ ~y.neg THEN FALSE
    ELSE IF ~x.neg /\ y.neg THEN TRUE
    ELSE IF ~x.neg THEN DMagCmp(x, y) = 1
    ELSE DMagCmp(x, y) = -1

(***************************************************************************)
(* Bounds and input sets                                                   *)
(***************************************************************************)
MaxBills == 2
MaxEvents == 2

Groups == {"g1", "g2"}
(* the groups bills are created in; g2 stays without a bill *)
BillGroups == {"g1"}
Users == {"u1", "u2"}
Titles == {"dinner"}
PayTypes == {"equal", "each"}
(* bill totals (hundredths): 2.00 *)
Totals == {200}
(* amounts a slip can show (hundredths): 0, 1.05, 2.00 *)
SlipAmounts == {0, 105, 200}

(* event.source.groupId of an image sent outside a group *)
NoGroup == "undefined"

(***************************************************************************)
(* JavaScript values: [t, v] with v the numeric reading                    *)
(***************************************************************************)
JNull == [t |-> "null", v |-> 0]
JUndefined == [t |-> "undefined", v |-> 0]
JNumber(n) == [t |-> "number", v |-> n]
(* a string holding a number, such as "300" *)
JNumericString(n) == [t |-> "numstring", v |-> n]
(* a non-empty string with no numeric reading *)
JText == [t |-> "text", v |-> 0]

(* the empty string *)
JEmptyString == [t |-> "empty", v |-> 0]

(* !x *)
Falsy(x) == x.t \in {"null", "undefined", "empty"} \/ (x.t = "number" /\ x.v = 0)

(***************************************************************************)
(* slipParser.js                                                           *)
(***************************************************************************)
(* the keys of the record the prompt asks for *)
SlipKeys == {"bank_name", "amount", "transaction_date", "transaction_time",
             "sender", "receiver", "reference_id", "channel"}
TextKeys == SlipKeys \ {"amount"}

(* What the inference backend does for one image: generateContent or       *)
(* response.text() throws an Error with a message, or the response text is *)
(* returned.  The text is given by its code fence ("json" for ```json,     *)
(* "bare" for ```), by whether what the fence encloses is JSON at all, and *)
(* for JSON by the value it denotes: null, a number, a string, an array or *)
(* an object with its keys, the value of amount and the value that its     *)
(* other keys carry.                                                       *)
Behaviour(kind, message, fence, shape, keys, amount, field) ==
    [kind |-> kind, message |-> message, fence |-> fence, shape |-> shape,
     keys |-> keys,
     amount |-> IF "amount" \in keys THEN amount ELSE JUndefined,
     field |-> IF keys \cap TextKeys # {} THEN field ELSE JUndefined]

CallFails(message) == Behaviour("call_fails", message, "none", "none", {}, JNull, JNull)
NotJson(fence) == Behaviour("not_json", "", fence, "none", {}, JNull, JNull)
JsonValue(fence, shape) == Behaviour("json", "", fence, shape, {}, JNull, JNull)
JsonObject(fence, keys, amount, field) ==
    Behaviour("json", "", fence, "object", keys, amount, field)

(* no call of the extractor has returned *)
NoOutput == Behaviour("none", "", "none", "none", {}, JNull, JNull)

(* the messages of the errors the SDK throws *)
BackendMessages == {"fetch failed"}

(* the behaviours the image events of the pipeline meet: a failing call,   *)
(* text that is no JSON, and the object of the prompt with an amount that  *)
(* is a number, the text of a number, other text, null or absent           *)
BackendOutputs ==
    {CallFails(m) : m \in BackendMessages}
    \cup {NotJson("none")}
    \cup {JsonObject("none", SlipKeys, a, JText) :
            a \in {JNumber(n) : n \in SlipAmounts}
                  \cup {JNumericString(200), JText, JNull}}
    \cup {JsonObject("none", TextKeys, JUndefined, JText)}

(* text.replace(/```json\n?/g, "").replace(/```\n?/g, "").trim() *)
StripFences(text) == [text EXCEPT !.fence = "none"]

(* JSON.parse(cleanedText) throws a SyntaxError *)
JsonParseThrows(text) == text.fence # "none" \/ text.kind = "not_json"

(* parsed[key]: undefined on a number, a string, an array and on an object *)
(* without the key                                                         *)
Prop(parsed, key) ==
    IF parsed.shape = "object" /\ key \in parsed.keys
    THEN IF key = "amount" THEN parsed.amount ELSE parsed.field
    ELSE JUndefined

(* x || null *)
OrNull(x) == IF Falsy(x) THEN JNull ELSE x

(* the error field: <<>> for null, <<message>> for error.message *)
NoError == <<>>

(* the catch returns error null: a failure looks like an empty slip *)
SilentVariant(message) ==
    [bank_name |-> JNull, amount |-> JNull, transaction_date |-> JNull,
     transaction_time |-> JNull, sender |-> JNull, receiver |-> JNull,
     reference_id |-> JNull, channel |-> JNull, error |-> NoError]

(* the record the catch returns *)
ErrorVariant(message) ==
    [bank_name |-> JNull, amount |-> JNull, transaction_date |-> JNull,
     transaction_time |-> JNull, sender |-> JNull, receiver |-> JNull,
     reference_id |-> JNull, channel |-> JNull, error |-> <<message>>]

(* Number(parsed.amount) || null: the text of a number counts as one *)
NumberAmount(a) == IF a.t \in {"number", "numstring"} THEN JNumber(a.v) ELSE JNull

(* typeof parsed.amount === "number" ? parsed.amount : null *)
CoerceAmount(a) == IF a.t = "number" THEN a ELSE JNull

parseSlipImage(out) ==
    IF out.kind = "call_fails" THEN ErrorVariant(out.message)
    ELSE LET cleanedText == StripFences(out)
         IN  IF JsonParseThrows(cleanedText)
             THEN ErrorVariant("Unexpected token")
             ELSE IF cleanedText.shape = "null"
             THEN ErrorVariant("Cannot read properties of null")
             ELSE [bank_name |-> OrNull(Prop(cleanedText, "bank_name")),
                   amount |-> CoerceAmount(Prop(cleanedText, "amount")),
                   transaction_date |-> OrNull(Prop(cleanedText, "transaction_date")),
                   transaction_time |-> OrNull(Prop(cleanedText, "transaction_time")),
                   sender |-> OrNull(Prop(cleanedText, "sender")),
                   receiver |-> OrNull(Prop(cleanedText, "receiver")),
                   reference_id |-> OrNull(Prop(cleanedText, "reference_id")),
                   channel |-> OrNull(Prop(cleanedText, "channel")),
                   error |-> NoError]

(* if (slipInfo.error) *)
ErrorSet(slipInfo) == slipInfo.error # NoError /\ slipInfo.error[1] # ""

(* no slip has been parsed *)
NoSlipInfo ==
    [bank_name |-> JNull, amount |-> JNull, transaction_date |-> JNull,
     transaction_time |-> JNull, sender |-> JNull, receiver |-> JNull,
     reference_id |-> JNull, channel |-> JNull, error |-> NoError]

(***************************************************************************)
(* The store and the events in flight                                      *)
(***************************************************************************)
VARIABLES
    group_members,      \* rows [id, group_id, user_id]
    bills,              \* sequence of rows [id, group_id, title, pay_type, total, created_at]
    bill_participants,  \* sequence of rows [id, bill_id, member_id, amount_due, paid]
    events,             \* sequence of image events, one record per handleImage call
    tx,                 \* the POST /api/bill request on its own connection
    extraction,         \* one parseSlipImage call: the backend's behaviour and the result
    webhook             \* one POST /webhook request: its batch of events and its responses

vars == <<group_members, bills, bill_participants, events, tx, extraction, webhook>>

(* no bill request has been made *)
NoTx == [status |-> "idle"]
(* no webhook request has arrived *)
NoWebhook == [status |-> "idle"]
(* parseSlipImage has not been called on its own *)
NoExtraction == [status |-> "idle"]

(* result.rows[0] || null: the null row *)
NoRow == [participant_id |-> 0, amount_due |-> 0, bill_title |-> "", bill_id |-> 0]
NoReply == [kind |-> "none", title |-> "", expected |-> 0, received |-> 0]

Range(s) == {s[i] : i \in DOMAIN s}

(* the resolver's SELECT without gm.user_id = $2: the pending rows of the  *)
(* whole group                                                             *)
PendingRowsOfGroup(groupId, userId) ==
    {[participant_id |-> bp.id, amount_due |-> bp.amount_due,
      bill_title |-> b.title, bill_id |-> b.id, created_at |-> b.created_at] :
        <<bp, b, gm>> \in
            {t \in Range(bill_participants) \X Range(bills) \X group_members :
                /\ t[2].id = t[1].bill_id
                /\ t[3].id = t[1].member_id
                /\ t[2].group_id = groupId
                /\ ~t[1].paid}}

(* imageService.js: the rows of the resolver's SELECT before ORDER BY and LIMIT *)
PendingRows(groupId, userId) ==
    {[participant_id |-> bp.id, amount_due |-> bp.amount_due,
      bill_title |-> b.title, bill_id |-> b.id, created_at |-> b.created_at] :
        <<bp, b, gm>> \in
            {t \in Range(bill_participants) \X Range(bills) \X group_members :
                /\ t[2].id = t[1].bill_id
                /\ t[3].id = t[1].member_id
                /\ t[2].group_id = groupId
                /\ t[3].user_id = userId
                /\ t[1].paid = FALSE}}

(* ORDER BY b.created_at DESC LIMIT 1 *)
(* ORDER BY b.created_at ASC: the oldest pending row first *)
OldestFirst(rows) == {r \in rows : \A q \in rows : q.created_at >= r.created_at}

LatestFirst(rows) == {r \in rows : \A q \in rows : q.created_at <= r.created_at}

Project(r) == [participant_id |-> r.participant_id, amount_due |-> r.amount_due,
               bill_title |-> r.bill_title, bill_id |-> r.bill_id]

(* the values findPendingBillForUser can return *)
findPendingBillForUser(groupId, userId) ==
    LET rows == PendingRows(groupId, userId)
    IN  IF rows = {} THEN {NoRow} ELSE {Project(r) : r \in LatestFirst(rows)}

(* the UPDATE is lost: no row is written *)
writeNothing(participantId) == bill_participants

(* UPDATE bill_participants SET paid = NOT paid WHERE id = $1 *)
togglePaid(participantId) ==
    [i \in DOMAIN bill_participants |->
        IF bill_participants[i].id = participantId
        THEN [bill_participants[i] EXCEPT !.paid = ~@]
        ELSE bill_participants[i]]

(* UPDATE bill_participants SET paid = true WHERE id = $1 *)
markAsPaid(participantId) ==
    [i \in DOMAIN bill_participants |->
        IF bill_participants[i].id = participantId
        THEN [bill_participants[i] EXCEPT !.paid = TRUE]
        ELSE bill_participants[i]]

(* diff > tolerance, on Numbers:                                           *)
(*   const tolerance = pendingBill.amount_due * 0.05;                      *)
(*   const diff = Math.abs(slipInfo.amount - pendingBill.amount_due);      *)
NumberMismatch(amount, amount_due) ==
    LET tolerance == DMul(DFromHundredths(amount_due), DFromHundredths(5))
        diff == DAbs(DSub(DFromHundredths(amount), DFromHundredths(amount_due)))
    IN  DGt(diff, tolerance)

(* NumberMismatch over the model's amounts, computed once *)
RECURSIVE MismatchSet(_)
MismatchSet(S) ==
    IF S = {} THEN {}
    ELSE LET p == CHOOSE q \in S : TRUE
         IN  (IF NumberMismatch(p[1], p[2]) THEN {p} ELSE {}) \cup MismatchSet(S \ {p})

TabledAmounts == SlipAmounts \X {t \div n : t \in Totals, n \in 1..2}
MismatchTable == MismatchSet(TabledAmounts)

AmountMismatch(amount, amount_due) ==
    IF <<amount, amount_due>> \in TabledAmounts
    THEN <<amount, amount_due>> \in MismatchTable
    ELSE NumberMismatch(amount, amount_due)

(***************************************************************************)
(* index.js: POST /api/bill                                                *)
(***************************************************************************)
MemberIds == {gm.id : gm \in group_members}

(* request.body.memberIds: lists of one or two member ids, a repeated id   *)
(* included                                                                *)
MemberIdLists ==
    {<<a>> : a \in MemberIds}
    \cup {<<a, b>> : <<a, b>> \in {t \in MemberIds \X MemberIds : t[1] <= t[2]}}

(* rowCount of SELECT id FROM group_members WHERE group_id = $1 AND id = ANY($2) *)
MemberCheckRowCount(groupId, memberIds) ==
    Cardinality({gm \in group_members :
                    gm.group_id = groupId /\ gm.id \in Range(memberIds)})

(* the validation without numAmount <= 0: any amount but 0 passes *)
AcceptedAnyAmount(groupId, title, payType, amount, memberIds) ==
    /\ groupId # "" /\ title # "" /\ payType # "" /\ amount # 0
    /\ Len(memberIds) # 0
    /\ payType \in {"equal", "each"}
    /\ MemberCheckRowCount(groupId, memberIds) = Len(memberIds)

(* the request without the member check *)
AcceptedWithoutMemberCheck(groupId, title, payType, amount, memberIds) ==
    /\ groupId # "" /\ title # "" /\ payType # "" /\ amount # 0
    /\ Len(memberIds) # 0
    /\ amount > 0
    /\ payType \in {"equal", "each"}

(* the request passes the input validation and the member check *)
BillRequestAccepted(groupId, title, payType, amount, memberIds) ==
    /\ groupId # "" /\ title # "" /\ payType # "" /\ amount # 0
    /\ Len(memberIds) # 0
    /\ amount > 0
    /\ payType \in {"equal", "each"}
    /\ MemberCheckRowCount(groupId, memberIds) = Len(memberIds)

(* every member is charged the whole amount, whatever the pay type *)
PerPersonWhole(payType, amount, n) == amount

(* numAmount / memberIds.length, exact for the totals of the model *)
PerPerson(payType, amount, n) == IF payType = "equal" THEN amount \div n ELSE amount

(* BEGIN; INSERT bills; INSERT bill_participants ...; COMMIT: the rows      *)
(* become visible to the other connections together, at the commit.  A     *)
(* request that is rejected or fails rolls back and leaves the store as it *)
(* was.                                                                    *)
PostApiBill(groupId, title, payType, amount, memberIds) ==
    /\ Len(bills) < MaxBills
    /\ BillRequestAccepted(groupId, title, payType, amount, memberIds)
    /\ amount % Len(memberIds) = 0
    /\ LET billId == Len(bills) + 1
           n == Len(bill_participants)
       IN  /\ bills' = Append(bills,
                [id |-> billId, group_id |-> groupId, title |-> title,
                 pay_type |-> payType, total |-> amount, created_at |-> billId])
           /\ bill_participants' = bill_participants \o
                [i \in 1..Len(memberIds) |->
                    [id |-> n + i, bill_id |-> billId, member_id |-> memberIds[i],
                     amount_due |-> PerPerson(payType, amount, Len(memberIds)),
                     paid |-> FALSE]]
    /\ UNCHANGED <<tx, extraction, group_members, events, webhook>>

(***************************************************************************)
(* POST /api/bill, one action per await: the statements of the request run *)
(* on its own connection between BEGIN and COMMIT, and the rows they       *)
(* insert are held in tx until the COMMIT; the other connections read the  *)
(* committed tables bills and bill_participants                            *)
(***************************************************************************)
(* const { groupId, title, payType, amount, memberIds } = request.body *)
BillRequest(groupId, title, payType, amount, memberIds) ==
    [groupId |-> groupId, title |-> title, payType |-> payType,
     amount |-> amount, memberIds |-> memberIds]

(* the input validation, BEGIN and the member check: a request that fails  *)
(* them is answered 400 (after a ROLLBACK of the empty transaction)        *)
TxBegin(req) ==
    [status |-> IF BillRequestAccepted(req.groupId, req.title, req.payType,
                                        req.amount, req.memberIds)
                THEN "open" ELSE "rejected",
     request |-> req, billId |-> 0, bill |-> <<>>, rows |-> <<>>]

BillRequested(groupId, title, payType, amount, memberIds) ==
    /\ tx.status # "open"
    /\ Len(bills) < MaxBills
    /\ amount % Len(memberIds) = 0
    /\ tx' = TxBegin(BillRequest(groupId, title, payType, amount, memberIds))
    /\ UNCHANGED <<group_members, bills, bill_participants, events, extraction, webhook>>

(* INSERT INTO bills (...) VALUES (...) RETURNING id *)
TxInsertBill(t) ==
    LET billId == Len(bills) + 1
    IN  [t EXCEPT !.billId = billId,
                  !.bill = <<[id |-> billId, group_id |-> t.request.groupId,
                              title |-> t.request.title,
                              pay_type |-> t.request.payType,
                              total |-> t.request.amount, created_at |-> billId]>>]

BillInserted ==
    /\ tx.status = "open"
    /\ tx.bill = <<>>
    /\ tx' = TxInsertBill(tx)
    /\ UNCHANGED <<group_members, bills, bill_participants, events, extraction, webhook>>

(* one pass of the loop: INSERT INTO bill_participants (...) VALUES (...) *)
TxInsertParticipant(t) ==
    LET i == Len(t.rows) + 1
    IN  [t EXCEPT !.rows = Append(@,
            [id |-> Len(bill_participants) + i, bill_id |-> t.billId,
             member_id |-> t.request.memberIds[i],
             amount_due |-> PerPerson(t.request.payType, t.request.amount,
                                      Len(t.request.memberIds)),
             paid |-> FALSE])]

ParticipantInserted ==
    /\ tx.status = "open"
    /\ tx.bill # <<>>
    /\ Len(tx.rows) < Len(tx.request.memberIds)
    /\ tx' = TxInsertParticipant(tx)
    /\ UNCHANGED <<group_members, bills, bill_participants, events, extraction, webhook>>

(* every INSERT persists as it is made: the request without a transaction *)
TxKeep(t) == <<bills \o t.bill, bill_participants \o t.rows>>

(* ROLLBACK: the tables as the other connections see them stay as they are *)
TxRollback(t) == <<bills, bill_participants>>

(* COMMIT: the rows of the transaction become visible together *)
TxCommit(t) == <<bills \o t.bill, bill_participants \o t.rows>>

BillCommitted ==
    /\ tx.status = "open"
    /\ tx.bill # <<>>
    /\ Len(tx.rows) = Len(tx.request.memberIds)
    /\ bills' = TxCommit(tx)[1]
    /\ bill_participants' = TxCommit(tx)[2]
    /\ tx' = [tx EXCEPT !.status = "committed"]
    /\ UNCHANGED <<group_members, events, extraction, webhook>>

(* a query of the open transaction throws: catch, ROLLBACK, 500 *)
BillQueryFailed ==
    /\ tx.status = "open"
    /\ bills' = TxRollback(tx)[1]
    /\ bill_participants' = TxRollback(tx)[2]
    /\ tx' = [tx EXCEPT !.status = "rolled_back"]
    /\ UNCHANGED <<group_members, events, extraction, webhook>>

(***************************************************************************)
(* imageService.js: handleImage and handleSlipImage, one action per await  *)
(***************************************************************************)
Reply(kind) == [kind |-> kind, title |-> "", expected |-> 0, received |-> 0]

(* return client.replyMessage(event.replyToken, ...): the handler settles   *)
(* as the reply call does; nothing of the handler runs after it            *)
Replying(ev, reply, replyOk) ==
    [ev EXCEPT !.pc = IF replyOk THEN "resolved" ELSE "rejected",
               !.fault = IF replyOk THEN @ ELSE "reply",
               !.replies = Append(@, reply)]

NewEvent(groupId, userId) ==
    [groupId |-> groupId, userId |-> userId,
     pc |-> IF groupId = NoGroup THEN "resolved" ELSE "decoding",
     scan |-> "none",
     out |-> NoOutput,
     slipInfo |-> NoSlipInfo,
     pendingBill |-> NoRow,
     replies |-> <<>>,
     resolverCalls |-> 0, writerCalls |-> 0,
     wasPaid |-> FALSE,
     fault |-> "none"]

(* handleImage up to its first await; an image outside a group returns at once *)
HandleImage(groupId, userId) ==
    /\ Len(events) < MaxEvents
    /\ events' = Append(events, NewEvent(groupId, userId))
    /\ UNCHANGED <<tx, extraction, group_members, bills, bill_participants, webhook>>

(* the scan without the if (!qr) return: a missing QR code does not stop    *)
(* the pipeline                                                            *)
AfterScanUngated(ev, scan, replyOk) ==
    LET scanned == [ev EXCEPT !.scan = scan]
    IN  CASE scan = "throws" -> Replying([scanned EXCEPT !.fault = "image"],
                                         Reply("process_failed"), replyOk)
          [] scan = "no_qr"  -> [scanned EXCEPT !.pc = "parsing"]
          [] scan = "qr"     -> [scanned EXCEPT !.pc = "parsing"]

(* return await client.replyMessage(...) inside the try: a failing reply   *)
(* call is caught and answered by a second reply call                      *)
AfterScanAwaited(ev, scan, replyOk) ==
    LET scanned == [ev EXCEPT !.scan = scan]
    IN  CASE scan = "throws" -> Replying([scanned EXCEPT !.fault = "image"],
                                         Reply("process_failed"), replyOk)
          [] scan = "no_qr"  ->
                IF replyOk THEN Replying(scanned, Reply("no_qr"), replyOk)
                ELSE Replying([scanned EXCEPT !.replies = Append(@, Reply("no_qr"))],
                              Reply("process_failed"), replyOk)
          [] scan = "qr"     -> [scanned EXCEPT !.pc = "parsing"]

(* getMessageContent, loadImage and jsQR have returned or thrown *)
AfterScan(ev, scan, replyOk) ==
    LET scanned == [ev EXCEPT !.scan = scan]
    IN  CASE scan = "throws" -> Replying([scanned EXCEPT !.fault = "image"],
                                         Reply("process_failed"), replyOk)
          [] scan = "no_qr"  -> Replying(scanned, Reply("no_qr"), replyOk)
          [] scan = "qr"     -> [scanned EXCEPT !.pc = "parsing"]

ImageScanned(e, scan, replyOk) ==
    /\ events[e].pc = "decoding"
    /\ events' = [events EXCEPT ![e] = AfterScan(@, scan, replyOk)]
    /\ UNCHANGED <<tx, extraction, group_members, bills, bill_participants, webhook>>

(* the two checks of handleSlipImage in the other order: the amount is     *)
(* looked at before the error                                              *)
AfterParseAmountFirst(ev, out, replyOk) ==
    LET slipInfo == parseSlipImage(out)
        seen == [ev EXCEPT !.out = out, !.slipInfo = slipInfo]
    IN  IF Falsy(slipInfo.amount) THEN Replying(seen, Reply("amount_missing"), replyOk)
        ELSE IF ErrorSet(slipInfo)
        THEN Replying(seen, Reply("extraction_failed"), replyOk)
        ELSE [seen EXCEPT !.pc = "resolving", !.resolverCalls = @ + 1]

(* handleSlipImage after await parseSlipImage(buffer) *)
AfterParse(ev, out, replyOk) ==
    LET slipInfo == parseSlipImage(out)
        seen == [ev EXCEPT !.out = out, !.slipInfo = slipInfo]
    IN  IF ErrorSet(slipInfo) THEN Replying(seen, Reply("extraction_failed"), replyOk)
        ELSE IF Falsy(slipInfo.amount)
        THEN Replying(seen, Reply("amount_missing"), replyOk)
        ELSE [seen EXCEPT !.pc = "resolving", !.resolverCalls = @ + 1]

SlipParsed(e, out, replyOk) ==
    /\ events[e].pc = "parsing"
    /\ events' = [events EXCEPT ![e] = AfterParse(@, out, replyOk)]
    /\ UNCHANGED <<tx, extraction, group_members, bills, bill_participants, webhook>>

(* handleSlipImage after await findPendingBillForUser(groupId, userId) *)
AfterResolve(ev, pendingBill, replyOk) ==
    LET found == [ev EXCEPT !.pendingBill = pendingBill]
    IN  IF pendingBill = NoRow THEN Replying(found, Reply("no_pending"), replyOk)
        ELSE IF AmountMismatch(ev.slipInfo.amount.v, pendingBill.amount_due)
        THEN Replying(found, [kind |-> "mismatch", title |-> pendingBill.bill_title,
                              expected |-> pendingBill.amount_due,
                              received |-> ev.slipInfo.amount.v], replyOk)
        ELSE [found EXCEPT !.pc = "marking", !.writerCalls = @ + 1]

PendingBillResolved(e, replyOk) ==
    /\ events[e].pc = "resolving"
    /\ \E row \in findPendingBillForUser(events[e].groupId, events[e].userId) :
          events' = [events EXCEPT ![e] = AfterResolve(@, row, replyOk)]
    /\ UNCHANGED <<tx, extraction, group_members, bills, bill_participants, webhook>>

(* a pool.query of the pipeline throws: neither handleSlipImage nor the    *)
(* handleImage that returned its promise catches it, the handler rejects   *)
StoreFailed(e) ==
    /\ events[e].pc \in {"resolving", "marking"}
    /\ events' = [events EXCEPT ![e] = [@ EXCEPT !.pc = "rejected", !.fault = "store"]]
    /\ UNCHANGED <<tx, extraction, group_members, bills, bill_participants, webhook>>

IsPaid(participantId) ==
    \E i \in DOMAIN bill_participants :
        bill_participants[i].id = participantId /\ bill_participants[i].paid

(* handleSlipImage after await markAsPaid(pendingBill.participant_id) *)
AfterMark(ev, wasPaid, replyOk) ==
    Replying([ev EXCEPT !.wasPaid = wasPaid],
             [kind |-> "confirmed", title |-> ev.pendingBill.bill_title,
              expected |-> ev.pendingBill.amount_due,
              received |-> ev.slipInfo.amount.v], replyOk)

PaidMarked(e, replyOk) ==
    /\ events[e].pc = "marking"
    /\ bill_participants' = markAsPaid(events[e].pendingBill.participant_id)
    /\ events' = [events EXCEPT
                    ![e] = AfterMark(@, IsPaid(events[e].pendingBill.participant_id),
                                     replyOk)]
    /\ UNCHANGED <<tx, extraction, group_members, bills, webhook>>

(***************************************************************************)
(* Specification                                                           *)
(***************************************************************************)
(* every user has sent a message in every group before: autoRegisterMember *)
(* finds the row and returns (index.js 254)                                *)
InitialMembers ==
    {[id |-> 1, group_id |-> "g1", user_id |-> "u1"],
     [id |-> 2, group_id |-> "g1", user_id |-> "u2"],
     [id |-> 3, group_id |-> "g2", user_id |-> "u1"],
     [id |-> 4, group_id |-> "g2", user_id |-> "u2"]}

Init ==
    /\ group_members = InitialMembers
    /\ bills = <<>>
    /\ bill_participants = <<>>
    /\ events = <<>>
    /\ tx = NoTx
    /\ webhook = NoWebhook
    /\ extraction = NoExtraction

Next ==
    \/ \E groupId \in BillGroups, title \in Titles, payType \in PayTypes,
          amount \in Totals, memberIds \in MemberIdLists :
            PostApiBill(groupId, title, payType, amount, memberIds)
    \/ \E groupId \in Groups \cup {NoGroup}, userId \in Users :
            HandleImage(groupId, userId)
    \/ \E e \in DOMAIN events, scan \in {"throws", "no_qr", "qr"}, replyOk \in BOOLEAN :
            ImageScanned(e, scan, replyOk)
    \/ \E e \in DOMAIN events, out \in BackendOutputs, replyOk \in BOOLEAN :
            SlipParsed(e, out, replyOk)
    \/ \E e \in DOMAIN events, replyOk \in BOOLEAN : PendingBillResolved(e, replyOk)
    \/ \E e \in DOMAIN events : StoreFailed(e)
    \/ \E e \in DOMAIN events, replyOk \in BOOLEAN : PaidMarked(e, replyOk)

Spec == Init /\ [][Next]_vars

(* the bill request statement by statement, beside one image event *)
MaxTxEvents == 1

NextTx ==
    \/ \E groupId \in BillGroups, title \in Titles, payType \in PayTypes,
          amount \in Totals, memberIds \in MemberIdLists :
            BillRequested(groupId, title, payType, amount, memberIds)
    \/ BillInserted
    \/ ParticipantInserted
    \/ BillCommitted
    \/ BillQueryFailed
    \/ \E groupId \in Groups \cup {NoGroup}, userId \in Users :
            Len(events) < MaxTxEvents /\ HandleImage(groupId, userId)
    \/ \E e \in DOMAIN events, scan \in {"throws", "no_qr", "qr"}, replyOk \in BOOLEAN :
            ImageScanned(e, scan, replyOk)
    \/ \E e \in DOMAIN events, out \in BackendOutputs, replyOk \in BOOLEAN :
            SlipParsed(e, out, replyOk)
    \/ \E e \in DOMAIN events, replyOk \in BOOLEAN : PendingBillResolved(e, replyOk)
    \/ \E e \in DOMAIN events : StoreFailed(e)
    \/ \E e \in DOMAIN events, replyOk \in BOOLEAN : PaidMarked(e, replyOk)

SpecTx == Init /\ [][NextTx]_vars

(***************************************************************************)
(* parseSlipImage on its own, over the behaviours of the backend           *)
(***************************************************************************)
Fences == {"none", "json", "bare"}

ParserInputs ==
    {CallFails(m) : m \in BackendMessages}
    \cup {NotJson(f) : f \in Fences}
    \cup {JsonValue(f, shape) :
            f \in Fences, shape \in {"null", "number", "string", "array"}}
    \cup {JsonObject(f, keys, a, field) :
            f \in Fences,
            keys \in {SlipKeys, TextKeys, SlipKeys \cup {"note"}, {"amount"}, {}},
            a \in {JNumber(0), JNumber(200), JNumericString(300), JText, JNull},
            field \in {JText, JEmptyString, JNull}}

InitParse ==
    /\ group_members = InitialMembers
    /\ bills = <<>>
    /\ bill_participants = <<>>
    /\ events = <<>>
    /\ tx = NoTx
    /\ webhook = NoWebhook
    /\ extraction \in {[status |-> "called", out |-> o, slipInfo |-> NoSlipInfo] :
                          o \in ParserInputs}

(* await parseSlipImage(buffer) has returned *)
ParseReturned ==
    /\ extraction.status = "called"
    /\ extraction' = [extraction EXCEPT !.status = "returned",
                                        !.slipInfo = parseSlipImage(extraction.out)]
    /\ UNCHANGED <<group_members, bills, bill_participants, events, tx, webhook>>

NextParse == ParseReturned

SpecParse == InitParse /\ [][NextParse]_vars

(***************************************************************************)
(* index.js: POST /webhook, handleEvent, autoRegisterMember and            *)
(* handleStatus, one action per await                                      *)
(***************************************************************************)
MaxBatch == 2
MaxHookBills == 1

(* u3 has sent no message in g1 yet: group_members has no row for it *)
HookUsers == {"u1", "u3"}

(* the events handleEvent tells apart: an image message, the text /status, *)
(* and every event it resolves with null                                   *)
EventKinds == {"image", "status", "other"}

(* event.type and event.message, event.source.groupId, event.source.userId *)
HookSources ==
    {[kind |-> k, groupId |-> g, userId |-> u] :
        k \in EventKinds, g \in {"g1", NoGroup}, u \in HookUsers}

(* request.body.events *)
Batches == UNION {[1..n -> HookSources] : n \in 1..MaxBatch}

(* the behaviours of the extraction backend beside a webhook batch *)
HookOutputs ==
    {CallFails("fetch failed"), JsonObject("none", SlipKeys, JNumber(200), JText)}

(* the event as handleEvent(event) starts on it *)
HookEvent(src) ==
    [kind |-> src.kind, dispatched |-> FALSE, regFault |-> "none",
     statusFault |-> "none", statusBill |-> 0]
    @@ [NewEvent(src.groupId, src.userId) EXCEPT !.pc = "reg_select"]

(* handleEvent after await autoRegisterMember(event): the dispatch, up to  *)
(* the first await of the handler                                          *)
Dispatch(ev, replyOk) ==
    LET d == [ev EXCEPT !.dispatched = TRUE]
    IN  CASE ev.kind = "image" ->
                [d EXCEPT !.pc = IF ev.groupId = NoGroup THEN "resolved" ELSE "decoding"]
          [] ev.kind = "status" ->
                IF ev.groupId = NoGroup
                THEN Replying(d, Reply("groups_only"), replyOk)
                ELSE [d EXCEPT !.pc = "status_bill"]
          [] ev.kind = "other" -> [d EXCEPT !.pc = "resolved"]

(* handleEvent without the try of autoRegisterMember: a failure inside the *)
(* registration rejects handleEvent before the dispatch                    *)
RejectEvent(ev, fault, replyOk) ==
    [ev EXCEPT !.regFault = fault, !.pc = "rejected"]

(* catch (err) of autoRegisterMember: the error is logged, the function    *)
(* returns and handleEvent goes on to the dispatch                         *)
CatchAndDispatch(ev, fault, replyOk) ==
    Dispatch([ev EXCEPT !.regFault = fault], replyOk)

(* handleEvent up to its first await: autoRegisterMember returns at once   *)
(* for an event outside a group, and issues its SELECT otherwise           *)
Received(src, replyOk) ==
    IF src.groupId = NoGroup THEN Dispatch(HookEvent(src), replyOk)
    ELSE HookEvent(src)

(* Promise.all(request.body.events.map(event => handleEvent(event))) *)
WebhookReceived(batch, replyOk) ==
    /\ webhook.status = "idle"
    /\ events' = events \o [i \in 1..Len(batch) |-> Received(batch[i], replyOk)]
    /\ webhook' = [status |-> "pending", first |-> Len(events) + 1,
                   last |-> Len(events) + Len(batch), responses |-> <<>>]
    /\ UNCHANGED <<group_members, bills, bill_participants, tx, extraction>>

(* SELECT 1 FROM group_members WHERE group_id = $1 AND user_id = $2 *)
MemberExists(groupId, userId) ==
    \E gm \in group_members : gm.group_id = groupId /\ gm.user_id = userId

AfterSelect(ev, ok, replyOk) ==
    IF ~ok THEN CatchAndDispatch(ev, "store", replyOk)
    ELSE IF MemberExists(ev.groupId, ev.userId) THEN Dispatch(ev, replyOk)
    ELSE [ev EXCEPT !.pc = "reg_profile"]

MemberSelected(e, ok, replyOk) ==
    /\ events[e].pc = "reg_select"
    /\ events' = [events EXCEPT ![e] = AfterSelect(@, ok, replyOk)]
    /\ UNCHANGED <<group_members, bills, bill_participants, tx, extraction, webhook>>

(* client.getGroupMemberProfile in its own try: a failure is logged *)
ProfileFetched(e, ok) ==
    /\ events[e].pc = "reg_profile"
    /\ events' = [events EXCEPT ![e] =
                    [@ EXCEPT !.pc = "reg_summary",
                              !.regFault = IF ok THEN @ ELSE "lookup"]]
    /\ UNCHANGED <<group_members, bills, bill_participants, tx, extraction, webhook>>

(* client.getGroupSummary in its own try: a failure is logged *)
SummaryFetched(e, ok) ==
    /\ events[e].pc = "reg_summary"
    /\ events' = [events EXCEPT ![e] =
                    [@ EXCEPT !.pc = "reg_groups",
                              !.regFault = IF ok THEN @ ELSE "lookup"]]
    /\ UNCHANGED <<group_members, bills, bill_participants, tx, extraction, webhook>>

(* INSERT INTO groups ... ON CONFLICT (group_id) DO UPDATE, then           *)
(* INSERT INTO users ... ON CONFLICT (user_id) DO UPDATE                   *)
AfterUpsert(ev, ok, replyOk) ==
    IF ~ok THEN CatchAndDispatch(ev, "store", replyOk)
    ELSE [ev EXCEPT !.pc = IF ev.pc = "reg_groups" THEN "reg_users" ELSE "reg_link"]

Upserted(e, ok, replyOk) ==
    /\ events[e].pc \in {"reg_groups", "reg_users"}
    /\ events' = [events EXCEPT ![e] = AfterUpsert(@, ok, replyOk)]
    /\ UNCHANGED <<group_members, bills, bill_participants, tx, extraction, webhook>>

(* INSERT INTO group_members (group_id, user_id) VALUES ($1, $2) *)
LinkMember(groupId, userId) ==
    group_members \cup {[id |-> Cardinality(group_members) + 1,
                         group_id |-> groupId, user_id |-> userId]}

MemberLinked(e, ok, replyOk) ==
    /\ events[e].pc = "reg_link"
    /\ group_members' = IF ok THEN LinkMember(events[e].groupId, events[e].userId)
                        ELSE group_members
    /\ events' = [events EXCEPT ![e] =
                    IF ok THEN Dispatch(@, replyOk)
                    ELSE CatchAndDispatch(@, "store", replyOk)]
    /\ UNCHANGED <<bills, bill_participants, tx, extraction, webhook>>

(* the rows of SELECT ... FROM bills WHERE group_id = $1                   *)
(* ORDER BY created_at DESC LIMIT 1                                        *)
LatestBillRows(groupId) ==
    {b \in Range(bills) :
        /\ b.group_id = groupId
        /\ \A q \in Range(bills) : q.group_id = groupId => q.created_at <= b.created_at}

(* catch (err) of getLatestBillStatus: return null, which handleStatus     *)
(* answers as it answers a group without a bill                            *)
StatusFailureSwallowed(ev, replyOk) ==
    Replying([ev EXCEPT !.statusFault = "store"], Reply("no_bills"), replyOk)

(* handleStatus after the first query of getLatestBillStatus *)
AfterBillQuery(ev, rows, ok, replyOk) ==
    IF ~ok THEN StatusFailureSwallowed(ev, replyOk)
    ELSE IF rows = {} THEN Replying(ev, Reply("no_bills"), replyOk)
    ELSE [ev EXCEPT !.pc = "status_participants",
                    !.statusBill = (CHOOSE b \in rows : TRUE).id]

LatestBillQueried(e, ok, replyOk) ==
    /\ events[e].pc = "status_bill"
    /\ events' = [events EXCEPT ![e] =
                    AfterBillQuery(@, LatestBillRows(events[e].groupId), ok, replyOk)]
    /\ UNCHANGED <<group_members, bills, bill_participants, tx, extraction, webhook>>

(* handleStatus after the second query of getLatestBillStatus *)
AfterParticipantsQuery(ev, ok, replyOk) ==
    IF ~ok THEN StatusFailureSwallowed(ev, replyOk)
    ELSE LET b == CHOOSE b \in Range(bills) : b.id = ev.statusBill
         IN  Replying(ev, [kind |-> "bill_status", title |-> b.title,
                           expected |-> b.total, received |-> 0], replyOk)

ParticipantsQueried(e, ok, replyOk) ==
    /\ events[e].pc = "status_participants"
    /\ events' = [events EXCEPT ![e] = AfterParticipantsQuery(@, ok, replyOk)]
    /\ UNCHANGED <<group_members, bills, bill_participants, tx, extraction, webhook>>

(* the events of the request *)
BatchOf(w) == IF w.status = "idle" THEN {} ELSE w.first..w.last

(* Promise.race: the first handler that settles decides the response *)
PromiseRace(pcs) ==
    IF "rejected" \in pcs THEN {500}
    ELSE IF "resolved" \in pcs THEN {200}
    ELSE {}

(* Promise.all: rejected with the first rejection, fulfilled when every    *)
(* handler has fulfilled; .then answers 200, .catch answers 500            *)
PromiseAll(pcs) ==
    IF "rejected" \in pcs THEN {500}
    ELSE IF pcs \subseteq {"resolved"} THEN {200}
    ELSE {}

(* .then(() => response.status(200).end()) or                              *)
(* .catch(err => { ...; response.status(500).end(); })                     *)
WebhookResponded ==
    /\ webhook.status = "pending"
    /\ \E code \in PromiseAll({events[e].pc : e \in BatchOf(webhook)}) :
          webhook' = [webhook EXCEPT !.status = "responded",
                                     !.responses = Append(@, code)]
    /\ UNCHANGED <<group_members, bills, bill_participants, events, tx, extraction>>

NextHook ==
    \/ \E amount \in Totals :
          /\ webhook.status = "idle"
          /\ Len(bills) < MaxHookBills
          /\ PostApiBill("g1", "dinner", "each", amount, <<1>>)
    \/ \E amount \in Totals, memberIds \in MemberIdLists :
          /\ webhook.status = "responded"
          /\ Len(bills) < MaxHookBills
          /\ PostApiBill("g1", "dinner", "each", amount, memberIds)
    \/ \E batch \in Batches, replyOk \in BOOLEAN :
          WebhookReceived(batch, replyOk)
    \/ \E e \in DOMAIN events, ok \in BOOLEAN, replyOk \in BOOLEAN :
          MemberSelected(e, ok, replyOk)
    \/ \E e \in DOMAIN events, ok \in BOOLEAN : ProfileFetched(e, ok)
    \/ \E e \in DOMAIN events, ok \in BOOLEAN : SummaryFetched(e, ok)
    \/ \E e \in DOMAIN events, ok \in BOOLEAN, replyOk \in BOOLEAN :
          Upserted(e, ok, replyOk)
    \/ \E e \in DOMAIN events, ok \in BOOLEAN, replyOk \in BOOLEAN :
          MemberLinked(e, ok, replyOk)
    \/ \E e \in DOMAIN events, ok \in BOOLEAN, replyOk \in BOOLEAN :
          LatestBillQueried(e, ok, replyOk)
    \/ \E e \in DOMAIN events, ok \in BOOLEAN, replyOk \in BOOLEAN :
          ParticipantsQueried(e, ok, replyOk)
    \/ \E e \in DOMAIN events, scan \in {"throws", "no_qr", "qr"}, replyOk \in BOOLEAN :
          ImageScanned(e, scan, replyOk)
    \/ \E e \in DOMAIN events, out \in HookOutputs, replyOk \in BOOLEAN :
          SlipParsed(e, out, replyOk)
    \/ \E e \in DOMAIN events, replyOk \in BOOLEAN : PendingBillResolved(e, replyOk)
    \/ \E e \in DOMAIN events : StoreFailed(e)
    \/ \E e \in DOMAIN events, replyOk \in BOOLEAN : PaidMarked(e, replyOk)
    \/ WebhookResponded

SpecHook == Init /\ [][NextHook]_vars

(* the reactions of a settled promise are run by the event loop *)
SpecHookFair == SpecHook /\ WF_vars(WebhookResponded)

(***************************************************************************)
(* POST /api/bill from the request body to the HTTP response: the input    *)
(* validation on the values of the JSON body, the transaction, the group   *)
(* notification and the response                                           *)
(***************************************************************************)
(* request.body.memberIds: a value that is no array, the empty array, or   *)
(* an array of member ids                                                  *)
NotAnArray == [array |-> FALSE, items |-> <<>>]
ArrayOf(items) == [array |-> TRUE, items |-> items]

(* the lists of a request body: they start with the member 1 of g1 *)
BodyMemberLists == {l \in MemberIdLists : l[1] = 1}

(* request.body *)
Bodies ==
    {[groupId |-> g, title |-> t, payType |-> p, amount |-> a, memberIds |-> m] :
        g \in {"", "g1"}, t \in {"", "dinner"},
        p \in {"", "equal", "each", "half"},
        a \in {JUndefined, JNumber(0), JNumber(0 - 200), JNumber(200),
               JNumericString(200), JText},
        m \in {NotAnArray, ArrayOf(<<>>)} \cup {ArrayOf(l) : l \in BodyMemberLists}}

(* isNaN(Number(amount)) *)
IsNaN(x) == x.t \in {"text", "undefined"}

(* Number(amount), for a value that is not NaN *)
ToNumber(x) == x.v

(* the checks of the validation that look at the type of a value: !amount, *)
(* Array.isArray(memberIds), isNaN(numAmount)                              *)
BodyWellTyped(body) ==
    /\ ~Falsy(body.amount)
    /\ body.memberIds.array
    /\ ~IsNaN(body.amount)

(* the request as the statements after the validation see it *)
RequestOf(body) ==
    BillRequest(body.groupId, body.title, body.payType, ToNumber(body.amount),
                body.memberIds.items)

(* the handler up to the answer 400 or the first INSERT *)
BeginRequest(body) ==
    [body |-> body, before |-> <<bills, bill_participants>>, pushes |-> 0,
     notifyFault |-> "none"]
    @@ (IF BodyWellTyped(body) THEN TxBegin(RequestOf(body))
        ELSE [TxBegin(RequestOf(body)) EXCEPT !.status = "rejected"])

ApiBillPosted(body) ==
    /\ tx.status \in {"idle", "rejected", "responded", "rolled_back"}
    /\ Len(bills) < MaxBills
    /\ body.memberIds.items # <<>> =>
          ToNumber(body.amount) % Len(body.memberIds.items) = 0
    /\ tx' = BeginRequest(body)
    /\ UNCHANGED <<group_members, bills, bill_participants, events, extraction, webhook>>

(* the notification throws into the outer catch: ROLLBACK and 500 *)
NotificationFailureFails(t, fault) ==
    [t EXCEPT !.status = IF fault = "none" THEN "responded" ELSE "rolled_back",
              !.notifyFault = fault]

(* catch (notifyError): the failure is logged; response.json({ success:    *)
(* true, ... }) follows in every case                                      *)
AfterNotification(t, fault) ==
    [t EXCEPT !.status = "responded", !.notifyFault = fault]

(* const status = await getLatestBillStatus(groupId): null when one of its *)
(* queries fails                                                           *)
NotificationStatusFetched(ok) ==
    /\ tx.status = "committed"
    /\ tx' = IF ok /\ LatestBillRows(tx.request.groupId) # {}
             THEN [tx EXCEPT !.status = "notifying"]
             ELSE AfterNotification(tx, "store")
    /\ UNCHANGED <<group_members, bills, bill_participants, events, extraction, webhook>>

(* await client.pushMessage(groupId, ...) *)
NotificationPushed(ok) ==
    /\ tx.status = "notifying"
    /\ tx' = AfterNotification([tx EXCEPT !.pushes = @ + 1],
                               IF ok THEN "none" ELSE "push")
    /\ UNCHANGED <<group_members, bills, bill_participants, events, extraction, webhook>>

(* response.status(...) of the request *)
HttpStatus(t) ==
    CASE t.status = "rejected" -> 400
      [] t.status = "rolled_back" -> 500
      [] t.status = "responded" -> 200
      [] OTHER -> 0

NextBill ==
    \/ \E body \in Bodies : ApiBillPosted(body)
    \/ BillInserted
    \/ ParticipantInserted
    \/ BillCommitted
    \/ BillQueryFailed
    \/ \E ok \in BOOLEAN : NotificationStatusFetched(ok)
    \/ \E ok \in BOOLEAN : NotificationPushed(ok)

SpecBill == Init /\ [][NextBill]_vars

(***************************************************************************)
(* POST /api/bill with its pooled connection: pool.connect() before the    *)
(* try, the catch with its ROLLBACK, and dbClient.release() in the finally *)
(***************************************************************************)
(* response.status(code).json(...) *)
Respond(t, code) == [t EXCEPT !.responses = Append(@, code)]

(* finally { dbClient.release(); } *)
Release(t) == [t EXCEPT !.released = @ + 1]

(* catch (err) { await dbClient.query('ROLLBACK'); ...;                    *)
(* response.status(500).json(...) } finally { ... }: a ROLLBACK that       *)
(* throws leaves the catch before the response; the finally runs in both   *)
(* cases                                                                   *)
CatchRollback(t, rollbackOk) ==
    IF rollbackOk THEN Release(Respond([t EXCEPT !.status = "rolled_back"], 500))
    ELSE Release([t EXCEPT !.status = "failed"])

(* the four tests before BEGIN let the body through *)
PassesValidation(body) ==
    /\ BodyWellTyped(body)
    /\ body.groupId # "" /\ body.title # "" /\ body.payType # ""
    /\ body.memberIds.items # <<>>
    /\ ToNumber(body.amount) > 0
    /\ body.payType \in {"equal", "each"}

(* the handler from pool.connect() to the first INSERT: a body that fails  *)
(* the validation is answered 400; a failed member check is answered 400   *)
(* after its ROLLBACK, and a ROLLBACK that throws there goes to the catch  *)
ConnRequested(body, rollbackOk, catchOk) ==
    /\ tx.status \in {"idle", "rejected", "responded", "rolled_back", "failed"}
    /\ Len(bills) < MaxBills
    /\ body.memberIds.items # <<>> =>
          ToNumber(body.amount) % Len(body.memberIds.items) = 0
    /\ LET t == [released |-> 0, responses |-> <<>>] @@ BeginRequest(body)
       IN  tx' = IF t.status = "open" THEN t
                 ELSE IF ~PassesValidation(body) \/ rollbackOk
                 THEN Release(Respond(t, 400))
                 ELSE CatchRollback(t, catchOk)
    /\ UNCHANGED <<group_members, bills, bill_participants, events, extraction, webhook>>

(* a query of the open transaction (an INSERT or the COMMIT) throws *)
ConnQueryFailed(rollbackOk) ==
    /\ tx.status = "open"
    /\ tx' = CatchRollback(tx, rollbackOk)
    /\ UNCHANGED <<group_members, bills, bill_participants, events, extraction, webhook>>

(* the notification after the COMMIT, await by await, then the success     *)
(* response and the finally                                                *)
ConnNotified(ok) ==
    /\ tx.status \in {"committed", "notifying"}
    /\ tx' = IF tx.status = "committed"
             THEN IF ok /\ LatestBillRows(tx.request.groupId) # {}
                  THEN [tx EXCEPT !.status = "notifying"]
                  ELSE Release(Respond(AfterNotification(tx, "store"), 200))
             ELSE Release(Respond(AfterNotification([tx EXCEPT !.pushes = @ + 1],
                                                    IF ok THEN "none" ELSE "push"),
                                  200))
    /\ UNCHANGED <<group_members, bills, bill_participants, events, extraction, webhook>>

NextConn ==
    \/ \E body \in Bodies, rollbackOk \in BOOLEAN, catchOk \in BOOLEAN :
          ConnRequested(body, rollbackOk, catchOk)
    \/ BillInserted
    \/ ParticipantInserted
    \/ BillCommitted
    \/ \E rollbackOk \in BOOLEAN : ConnQueryFailed(rollbackOk)
    \/ \E ok \in BOOLEAN : ConnNotified(ok)

SpecConn == Init /\ [][NextConn]_vars

(***************************************************************************)
(* The serverless webhook handler: the method test and the signature test  *)
(* before Promise.all(events.map(event => handleEvent(event)))             *)
(***************************************************************************)
(* config.channelSecret *)
ChannelSecret == "channel-secret"

(* the x-line-signature header a sender holding the key computes over a    *)
(* body: the keyed digest, which names its key and its body and nothing    *)
(* else                                                                    *)
SignatureOf(key, body) == [key |-> key, body |-> body]

(* validateSignature(body, channelSecret, signature): the digest of the    *)
(* body under the secret is compared with the header                       *)
validateSignature(body, channelSecret, signature) ==
    signature = SignatureOf(channelSecret, body)

(* the handler that dispatches every POST, whatever its signature *)
GateWithoutSignature(method, body, signature) ==
    IF method # "POST" THEN 405 ELSE 0

(* the status the handler answers before any event is looked at; 0 when    *)
(* the request goes on to its events                                       *)
Gate(method, body, signature) ==
    IF method # "POST" THEN 405
    ELSE IF ~validateSignature(body, ChannelSecret, signature) THEN 401
    ELSE 0

(* export default async function handler(req, res), up to the first await  *)
(* of the handlers of its events                                           *)
ServerlessRequested(method, signature, batch, replyOk) ==
    /\ webhook.status = "idle"
    /\ LET code == Gate(method, batch, signature)
           req == [method |-> method, signature |-> signature, body |-> batch,
                   first |-> Len(events) + 1]
       IN  IF code # 0
           THEN /\ webhook' = req @@ [status |-> "responded", last |-> Len(events),
                                      responses |-> <<code>>]
                /\ UNCHANGED events
           ELSE /\ events' = events \o [i \in 1..Len(batch) |->
                                           Received(batch[i], replyOk)]
                /\ webhook' = req @@ [status |-> "pending",
                                      last |-> Len(events) + Len(batch),
                                      responses |-> <<>>]
    /\ UNCHANGED <<group_members, bills, bill_participants, tx, extraction>>

NextGate ==
    \/ \E amount \in Totals :
          /\ webhook.status = "idle"
          /\ Len(bills) < MaxHookBills
          /\ PostApiBill("g1", "dinner", "each", amount, <<1>>)
    \/ \E method \in {"GET", "POST"}, batch \in Batches, replyOk \in BOOLEAN :
          \E signature \in {SignatureOf(ChannelSecret, batch),
                            SignatureOf("guess", batch),
                            SignatureOf(ChannelSecret, <<>>)} :
             ServerlessRequested(method, signature, batch, replyOk)
    \/ \E e \in DOMAIN events, ok \in BOOLEAN, replyOk \in BOOLEAN :
          MemberSelected(e, ok, replyOk)
    \/ \E e \in DOMAIN events, ok \in BOOLEAN : ProfileFetched(e, ok)
    \/ \E e \in DOMAIN events, ok \in BOOLEAN : SummaryFetched(e, ok)
    \/ \E e \in DOMAIN events, ok \in BOOLEAN, replyOk \in BOOLEAN :
          Upserted(e, ok, replyOk)
    \/ \E e \in DOMAIN events, ok \in BOOLEAN, replyOk \in BOOLEAN :
          MemberLinked(e, ok, replyOk)
    \/ \E e \in DOMAIN events, ok \in BOOLEAN, replyOk \in BOOLEAN :
          LatestBillQueried(e, ok, replyOk)
    \/ \E e \in DOMAIN events, ok \in BOOLEAN, replyOk \in BOOLEAN :
          ParticipantsQueried(e, ok, replyOk)
    \/ \E e \in DOMAIN events, scan \in {"throws", "no_qr", "qr"}, replyOk \in BOOLEAN :
          ImageScanned(e, scan, replyOk)
    \/ \E e \in DOMAIN events, out \in HookOutputs, replyOk \in BOOLEAN :
          SlipParsed(e, out, replyOk)
    \/ \E e \in DOMAIN events, replyOk \in BOOLEAN : PendingBillResolved(e, replyOk)
    \/ \E e \in DOMAIN events : StoreFailed(e)
    \/ \E e \in DOMAIN events, replyOk \in BOOLEAN : PaidMarked(e, replyOk)
    \/ WebhookResponded

SpecGate == Init /\ [][NextGate]_vars

(***************************************************************************)
(* Vocabulary of the properties                                            *)
(***************************************************************************)
(* the handler's promise has settled *)
Settled(ev) == ev.pc \in {"resolved", "rejected"}

RepliedWith(ev, kind) == \E i \in DOMAIN ev.replies : ev.replies[i].kind = kind

AbsDiff(a, b) == IF a > b THEN a - b ELSE b - a

(* |a - d| <= 0.05 * d, on the decimal amounts *)
WithinTolerance(a, d) == 20 * AbsDiff(a, d) <= d

(* index.js getLatestBillStatus: the bills ORDER BY created_at DESC LIMIT 1 *)
(* can return for the group                                                *)
LatestBills(groupId) ==
    {b \in Range(bills) :
        /\ b.group_id = groupId
        /\ \A c \in Range(bills) : c.group_id = groupId => c.created_at <= b.created_at}

BillOf(bp) == CHOOSE b \in Range(bills) : b.id = bp.bill_id
PayerOf(bp) == (CHOOSE gm \in group_members : gm.id = bp.member_id).user_id

(* the obligation rows of a payer in the bills of a group *)
ObligationsOf(groupId, userId) ==
    {bp \in Range(bill_participants) :
        BillOf(bp).group_id = groupId /\ PayerOf(bp) = userId}

(* the events whose handler decided to confirm the obligation *)
ConfirmedReplies(participantId) ==
    {e \in DOMAIN events :
        /\ RepliedWith(events[e], "confirmed")
        /\ events[e].pendingBill.participant_id = participantId}

(***************************************************************************)
(* C1: for a pending obligation with due amount d > 0 and a numeric        *)
(* extracted amount a, the pipeline goes on to mark the obligation paid    *)
(* if and only if |a - d| <= 0.05 * d (a = 1.05 * d included).             *)
(***************************************************************************)
C1_ConfirmsIffWithinTolerance ==
    \A e \in DOMAIN events :
        events[e].pendingBill # NoRow =>
            (events[e].writerCalls = 1
                <=> WithinTolerance(events[e].slipInfo.amount.v,
                                    events[e].pendingBill.amount_due))

(***************************************************************************)
(* C2: no obligation is the subject of more than one "Payment Confirmed"   *)
(* reply, and no paid write is applied to a row that is already paid.      *)
(***************************************************************************)
C2_NoDuplicateConfirmation ==
    /\ \A bp \in Range(bill_participants) : Cardinality(ConfirmedReplies(bp.id)) <= 1
    /\ \A e \in DOMAIN events : ~events[e].wasPaid

(***************************************************************************)
(* C3: a settlement attempt that finds the obligation already paid is      *)
(* answered with an "already confirmed" reply, not with a fresh            *)
(* "Payment Confirmed".                                                    *)
(***************************************************************************)
C3_AlreadyConfirmedReply ==
    \A e \in DOMAIN events :
        (events[e].wasPaid /\ Settled(events[e])) =>
            /\ RepliedWith(events[e], "already_confirmed")
            /\ ~RepliedWith(events[e], "confirmed")

(***************************************************************************)
(* C4: the resolver returns null when the group has no bills, when every   *)
(* obligation of the payer in the group is paid, and when the payer has no *)
(* obligation row in the group's most recently created bill.               *)
(***************************************************************************)
C4_ResolverNullCases ==
    \A groupId \in Groups, userId \in Users :
        (\/ \A b \in Range(bills) : b.group_id # groupId
         \/ \A bp \in ObligationsOf(groupId, userId) : bp.paid
         \/ \A b \in LatestBills(groupId) :
                \A bp \in ObligationsOf(groupId, userId) : bp.bill_id # b.id)
        => findPendingBillForUser(groupId, userId) = {NoRow}

(***************************************************************************)
(* C5: an obligation turns paid only while its bill is the most recently   *)
(* created bill of its group (the bill the status view reports).           *)
(***************************************************************************)
C5_SettlesLatestBillOnly ==
    [][\A i \in DOMAIN bill_participants :
          (~bill_participants[i].paid /\ bill_participants'[i].paid)
              => BillOf(bill_participants[i])
                    \in LatestBills(BillOf(bill_participants[i]).group_id)]_vars

(***************************************************************************)
(* C6: for every (group, payer) the resolver returns at most one           *)
(* obligation; the one it returns is an unpaid obligation of that payer in *)
(* a bill of that group, and no bill of the group in which the payer is    *)
(* still unpaid was created later; it returns null only when the payer has *)
(* no unpaid obligation in the group.  A slip addresses no obligation of   *)
(* another payer or group.                                                 *)
(***************************************************************************)
C6_LatestUnpaidObligation ==
    /\ \A groupId \in Groups, userId \in Users :
        LET unpaid == {bp \in ObligationsOf(groupId, userId) : ~bp.paid}
            found == findPendingBillForUser(groupId, userId)
        IN  /\ Cardinality(found) = 1
            /\ \A r \in found :
                IF r = NoRow THEN unpaid = {}
                ELSE \E bp \in unpaid :
                        /\ bp.id = r.participant_id
                        /\ bp.bill_id = r.bill_id
                        /\ bp.amount_due = r.amount_due
                        /\ BillOf(bp).title = r.bill_title
                        /\ \A q \in unpaid :
                              BillOf(q).created_at <= BillOf(bp).created_at
    /\ \A e \in DOMAIN events :
        events[e].pendingBill # NoRow =>
            \E bp \in ObligationsOf(events[e].groupId, events[e].userId) :
                bp.id = events[e].pendingBill.participant_id

(* the payer is unpaid in two bills of the group and a slip of the payer   *)
(* was resolved to the later one                                           *)
C6_Witness ==
    \E e \in DOMAIN events :
        /\ events[e].pendingBill.bill_id = 2
        /\ \E bp \in ObligationsOf(events[e].groupId, events[e].userId) :
              bp.bill_id = 1 /\ ~bp.paid

(***************************************************************************)
(* C7: the paid flag is monotonic: a step never deletes an obligation row  *)
(* and never sets a paid row back to unpaid.                               *)
(***************************************************************************)
C7_PaidIsMonotonic ==
    [][\A i \in DOMAIN bill_participants :
          bill_participants[i].paid =>
              /\ i \in DOMAIN bill_participants'
              /\ bill_participants'[i].id = bill_participants[i].id
              /\ bill_participants'[i].paid]_vars

(* a paid row has gone through a second paid write and a later bill        *)
(* creation                                                                *)
C7_Witness ==
    /\ Len(bills) = 2
    /\ \E bp \in Range(bill_participants) : bp.paid /\ bp.bill_id = 1
    /\ \E e \in DOMAIN events : events[e].wasPaid

(***************************************************************************)
(* C8: every image event whose handler has settled has had exactly one     *)
(* reply sent.                                                             *)
(***************************************************************************)
C8_ExactlyOneReply ==
    \A e \in DOMAIN events : Settled(events[e]) => Len(events[e].replies) = 1

(***************************************************************************)
(* C9: an image event that ended on a store failure has had the generic    *)
(* failure reply sent.                                                     *)
(***************************************************************************)
C9_StoreFailureIsReplied ==
    \A e \in DOMAIN events :
        (Settled(events[e]) /\ events[e].fault = "store")
            => RepliedWith(events[e], "process_failed")

(***************************************************************************)
(* C10: when the extractor's output has an absent or non-numeric amount    *)
(* and is no extraction error, the event ends with the single reply        *)
(* "amount not detected", and neither the resolver nor the settlement      *)
(* writer was invoked for it.                                              *)
(***************************************************************************)
C10_NoAmountNoReconciliation ==
    \A e \in DOMAIN events :
        (events[e].out.kind = "json" /\ events[e].out.amount.t # "number") =>
            /\ Settled(events[e])
            /\ events[e].replies = <<Reply("amount_missing")>>
            /\ events[e].resolverCalls = 0
            /\ events[e].writerCalls = 0
            /\ events[e].pendingBill = NoRow

(* the amount came as the text of a number while the payer had a pending   *)
(* obligation of that amount                                               *)
C10_Witness ==
    \E e \in DOMAIN events :
        /\ events[e].out.kind = "json"
        /\ events[e].out.amount.t = "numstring"
        /\ RepliedWith(events[e], "amount_missing")
        /\ \E r \in findPendingBillForUser(events[e].groupId, events[e].userId) :
              r.amount_due = events[e].out.amount.v

(* the committed obligation rows of a bill *)
RowsOfBill(billId) == {bp \in Range(bill_participants) : bp.bill_id = billId}

(***************************************************************************)
(* C11: bill creation is all-or-nothing.  While the request is running and *)
(* after it has failed, the committed tables hold neither its bill row nor *)
(* any of its obligation rows; after it has succeeded they hold the bill   *)
(* row and one obligation row per selected member; at no time does a       *)
(* committed bill lack obligation rows or an obligation row lack its bill. *)
(***************************************************************************)
C11_BillCreationIsAtomic ==
    /\ \A bp \in Range(bill_participants) :
          \E b \in Range(bills) : b.id = bp.bill_id
    /\ \A b \in Range(bills) :
          /\ RowsOfBill(b.id) # {}
          /\ b.pay_type = "equal" =>
                \A bp \in RowsOfBill(b.id) :
                    bp.amount_due * Cardinality(RowsOfBill(b.id)) = b.total
    /\ (tx.status \in {"open", "rolled_back"} /\ tx.billId # 0) =>
          /\ \A b \in Range(bills) : b.id # tx.billId
          /\ RowsOfBill(tx.billId) = {}
    /\ tx.status = "committed" =>
          /\ \E b \in Range(bills) : b.id = tx.billId
          /\ Cardinality(RowsOfBill(tx.billId)) = Len(tx.request.memberIds)
          /\ {bp.member_id : bp \in RowsOfBill(tx.billId)} = Range(tx.request.memberIds)

(* the second participant insert of a request failed after an earlier      *)
(* request had committed its bill                                          *)
C11_Witness ==
    /\ tx.status = "rolled_back"
    /\ Len(tx.rows) = 1
    /\ Len(tx.request.memberIds) = 2
    /\ Len(bills) = 1

(***************************************************************************)
(* C12: the commit of a bill request with total T and n selected members   *)
(* adds exactly n obligation rows, one per selected member, all unpaid;    *)
(* each row is due T / n under pay type 'equal' and T under 'each'.        *)
(***************************************************************************)
C12_ObligationFanOut ==
    [][(tx.status = "open" /\ tx'.status = "committed") =>
          LET n == Len(tx.request.memberIds)
              T == tx.request.amount
              old == Len(bill_participants)
              added == {bill_participants'[i] : i \in (old + 1)..Len(bill_participants')}
          IN  /\ Len(bill_participants') = old + n
              /\ \A i \in 1..old : bill_participants'[i] = bill_participants[i]
              /\ {bp.member_id : bp \in added} = Range(tx.request.memberIds)
              /\ \A bp \in added :
                    /\ bp.bill_id = tx.billId
                    /\ ~bp.paid
                    /\ tx.request.payType = "equal" => bp.amount_due * n = T
                    /\ tx.request.payType = "each" => bp.amount_due = T]_vars

(* a bill of 2.00 split equally between two members has been committed *)
C12_Witness ==
    /\ tx.status = "committed"
    /\ tx.request.payType = "equal"
    /\ Len(tx.request.memberIds) = 2
    /\ \A bp \in RowsOfBill(tx.billId) : bp.amount_due = 100

(***************************************************************************)
(* C13: when the extractor returns a numeric amount (0 included) and the   *)
(* payer has a pending obligation whose due amount differs from it by more *)
(* than 5% of the due amount, the event goes on to the resolver, and the   *)
(* resolver's step ends it with the mismatch reply carrying the bill's     *)
(* title, the due amount as expected and the extracted amount as received. *)
(***************************************************************************)
C13_OutOfToleranceIsMismatch ==
    [][\A e \in DOMAIN events :
          LET ev == events[e]
              after == events'[e]
              pending == {r \in findPendingBillForUser(ev.groupId, ev.userId) :
                            r # NoRow}
          IN  /\ (/\ ev.pc = "parsing"
                  /\ after.out.kind = "json"
                  /\ after.out.amount.t = "number"
                  /\ \E r \in pending :
                        ~WithinTolerance(after.out.amount.v, r.amount_due))
                 => after.pc = "resolving"
              /\ (/\ ev.pc = "resolving"
                  /\ after.pc # "resolving"
                  /\ after.fault # "store"
                  /\ \A r \in pending :
                        ~WithinTolerance(ev.slipInfo.amount.v, r.amount_due)
                  /\ pending # {})
                 => \E r \in pending :
                        after.replies = <<[kind |-> "mismatch",
                                           title |-> r.bill_title,
                                           expected |-> r.amount_due,
                                           received |-> ev.out.amount.v]>>]_vars

(* the extraction failed: the backend call threw, the text (fence markers  *)
(* aside) is no JSON, or it is the JSON null, which has no properties      *)
ExtractionFailure(out) ==
    \/ out.kind \in {"call_fails", "not_json"}
    \/ out.kind = "json" /\ out.shape = "null"

(* the data fields of a slip record are all null *)
AllDataNull(slipInfo) == \A k \in SlipKeys : slipInfo[k] = JNull

(***************************************************************************)
(* C14: parseSlipImage returns a record for every backend behaviour, and   *)
(* on every failure the record has every data field null and a non-empty   *)
(* error message, which the pipeline's error check takes as a failure.     *)
(***************************************************************************)
C14_FailureIsErrorVariant ==
    extraction.status = "returned" =>
        /\ DOMAIN extraction.slipInfo = SlipKeys \cup {"error"}
        /\ ExtractionFailure(extraction.out) =>
              /\ AllDataNull(extraction.slipInfo)
              /\ Len(extraction.slipInfo.error) = 1
              /\ extraction.slipInfo.error[1] # ""
              /\ ErrorSet(extraction.slipInfo)

(* the backend returned fenced text that is no JSON and the call returned  *)
(* the error variant                                                       *)
C14_Witness ==
    /\ extraction.status = "returned"
    /\ extraction.out.kind = "not_json"
    /\ extraction.out.fence = "json"
    /\ extraction.slipInfo = ErrorVariant("Unexpected token")

(***************************************************************************)
(* C15: the extractor returns the error variant whenever the output, code  *)
(* fence markers stripped, is not a single JSON object with exactly the    *)
(* eight keys of the prompt.                                               *)
(***************************************************************************)
C15_OtherShapesAreRejected ==
    (/\ extraction.status = "returned"
     /\ ~(/\ extraction.out.kind = "json"
          /\ extraction.out.shape = "object"
          /\ extraction.out.keys = SlipKeys))
    => ErrorSet(extraction.slipInfo)

(***************************************************************************)
(* C16: for an output that is the object of the prompt, the result is not  *)
(* the error variant, an amount that is a number or the text of a number   *)
(* yields that number, and any other amount yields null.                   *)
(***************************************************************************)
C16_AmountIsCoerced ==
    (/\ extraction.status = "returned"
     /\ extraction.out.kind = "json"
     /\ extraction.out.shape = "object"
     /\ extraction.out.keys = SlipKeys)
    => /\ ~ErrorSet(extraction.slipInfo)
       /\ extraction.slipInfo.amount =
             IF extraction.out.amount.t \in {"number", "numstring"}
             THEN JNumber(extraction.out.amount.v)
             ELSE JNull

(* a step of the pipeline of image event e *)
StepOf(e) ==
    \/ \E scan \in {"throws", "no_qr", "qr"}, replyOk \in BOOLEAN :
            ImageScanned(e, scan, replyOk)
    \/ \E out \in BackendOutputs, replyOk \in BOOLEAN : SlipParsed(e, out, replyOk)
    \/ \E replyOk \in BOOLEAN : PendingBillResolved(e, replyOk)
    \/ StoreFailed(e)
    \/ \E replyOk \in BOOLEAN : PaidMarked(e, replyOk)

(***************************************************************************)
(* C17: image events of different payers are independent.  A step of one   *)
(* event changes no obligation row of another payer, leaves every event of *)
(* another payer as it is, and changes neither what the resolver answers   *)
(* for such an event nor the paid flag of the row it resolved: the steps   *)
(* of the two events commute, so every interleaving ends as running them   *)
(* one after the other does.  And whatever the other events are waiting    *)
(* for, an event that has not settled can take its next step.              *)
(***************************************************************************)
C17_PayersAreIndependent ==
    /\ [](\A e \in DOMAIN events : ~Settled(events[e]) => ENABLED StepOf(e))
    /\ [][\A e \in DOMAIN events :
            events'[e] # events[e] =>
                /\ \A i \in DOMAIN bill_participants :
                      PayerOf(bill_participants[i]) # events[e].userId
                          => bill_participants'[i] = bill_participants[i]
                /\ \A f \in DOMAIN events :
                      events[f].userId # events[e].userId =>
                          /\ events'[f] = events[f]
                          /\ findPendingBillForUser(events[f].groupId, events[f].userId)'
                                = findPendingBillForUser(events[f].groupId,
                                                         events[f].userId)
                          /\ IsPaid(events[f].pendingBill.participant_id)'
                                = IsPaid(events[f].pendingBill.participant_id)]_vars

(* two payers of one bill have both had their slips confirmed, the second  *)
(* one resolved while the first was between its resolver and its writer    *)
C17_Witness ==
    /\ Len(events) = 2
    /\ events[1].userId # events[2].userId
    /\ events[1].groupId = events[2].groupId
    /\ RepliedWith(events[1], "confirmed")
    /\ RepliedWith(events[2], "confirmed")
    /\ events[1].pendingBill.bill_id = events[2].pendingBill.bill_id

(* the obligation rows a step changes *)
ChangedRows ==
    {i \in DOMAIN bill_participants : bill_participants'[i] # bill_participants[i]}

(***************************************************************************)
(* C18: a step of an image event changes an obligation row only when it    *)
(* ends the event with the confirmed outcome, and then it changes exactly  *)
(* one row, from unpaid to paid: the obligation the event resolved, which  *)
(* is one of the sending payer; every other step of an event (no QR code,  *)
(* extraction failed, amount missing, no pending obligation, mismatch)     *)
(* leaves every row as it was.                                             *)
(***************************************************************************)
C18_OnlyConfirmationWrites ==
    [][\A e \in DOMAIN events :
          events'[e] # events[e] =>
              IF RepliedWith(events'[e], "confirmed")
              THEN /\ Cardinality(ChangedRows) = 1
                   /\ \A i \in ChangedRows :
                         /\ bill_participants[i].id
                                = events[e].pendingBill.participant_id
                         /\ PayerOf(bill_participants[i]) = events[e].userId
                         /\ ~bill_participants[i].paid
                         /\ bill_participants'[i].paid
              ELSE ChangedRows = {}]_vars

(***************************************************************************)
(* C19: in every reachable state in which a "Payment Confirmed" reply has  *)
(* been sent for an obligation, that obligation is paid; an event whose    *)
(* store query failed has sent no confirmation.                            *)
(***************************************************************************)
C19_ConfirmedMeansPaid ==
    \A e \in DOMAIN events :
        /\ RepliedWith(events[e], "confirmed")
              => IsPaid(events[e].pendingBill.participant_id)
        /\ events[e].fault = "store" => ~RepliedWith(events[e], "confirmed")

(* one slip was confirmed and the paid write of another slip failed *)
C19_Witness ==
    /\ \E e \in DOMAIN events : RepliedWith(events[e], "confirmed")
    /\ \E e \in DOMAIN events :
          events[e].fault = "store" /\ events[e].writerCalls = 1

(***************************************************************************)
(* C20: an image event in whose image no QR code was found ends with the   *)
(* single reply "no QR code detected", and the extractor, the resolver and *)
(* the writer were never invoked for it; the extractor has been invoked    *)
(* only for events in whose image a QR code was found.                     *)
(***************************************************************************)
C20_NoQrShortCircuits ==
    \A e \in DOMAIN events :
        /\ events[e].scan = "no_qr" =>
              /\ Settled(events[e])
              /\ events[e].replies = <<Reply("no_qr")>>
              /\ events[e].out = NoOutput
              /\ events[e].slipInfo = NoSlipInfo
              /\ events[e].resolverCalls = 0
              /\ events[e].writerCalls = 0
              /\ events[e].pendingBill = NoRow
        /\ events[e].out # NoOutput => events[e].scan = "qr"

(* an image without a QR code from a payer who has a pending obligation *)
C20_Witness ==
    \E e \in DOMAIN events :
        /\ events[e].scan = "no_qr"
        /\ RepliedWith(events[e], "no_qr")
        /\ findPendingBillForUser(events[e].groupId, events[e].userId) # {NoRow}

(***************************************************************************)
(* C21: an extraction failure is terminal and distinct from a missing      *)
(* amount.  An image event whose extractor returned the error variant has  *)
(* settled with the single reply 'Failed to read payment slip. Please try  *)
(* again.' (never 'Could not detect payment amount'), without a call of    *)
(* the resolver or of the settlement writer and without a resolved         *)
(* obligation; and no later step touches the event again: the extractor is *)
(* not called a second time for it.                                        *)
(***************************************************************************)
C21_ExtractionFailureIsTerminal ==
    /\ [](\A e \in DOMAIN events :
            events[e].slipInfo.error # NoError =>
                /\ Settled(events[e])
                /\ events[e].replies = <<Reply("extraction_failed")>>
                /\ ~RepliedWith(events[e], "amount_missing")
                /\ events[e].resolverCalls = 0
                /\ events[e].writerCalls = 0
                /\ events[e].pendingBill = NoRow)
    /\ [][\A e \in DOMAIN events :
            events[e].slipInfo.error # NoError => events'[e] = events[e]]_vars

(* the extractor failed for a payer who has a pending obligation in the    *)
(* group: the failure reply is the only thing the event produced           *)
C21_Witness ==
    \E e \in DOMAIN events :
        /\ events[e].out \in {CallFails(m) : m \in BackendMessages}
        /\ events[e].slipInfo.error # NoError
        /\ events[e].pc = "resolved"
        /\ RepliedWith(events[e], "extraction_failed")
        /\ findPendingBillForUser(events[e].groupId, events[e].userId) # {NoRow}

(***************************************************************************)
(* C24: on every path of handleImage the chat reply API is called at most  *)
(* once for the event, whether the content fetch or the image decode       *)
(* throws, a query of the store throws or the reply call itself fails: the *)
(* reply token of an event is never used twice.                            *)
(***************************************************************************)
C24_ReplyTokenUsedOnce ==
    \A e \in DOMAIN events : Len(events[e].replies) <= 1

(* the reply call of the 'No QR code detected' answer failed: the handler  *)
(* rejected and made no second call                                        *)
C24_Witness ==
    \E e \in DOMAIN events :
        /\ events[e].scan = "no_qr"
        /\ events[e].fault = "reply"
        /\ events[e].pc = "rejected"
        /\ Len(events[e].replies) = 1

(***************************************************************************)
(* Vocabulary of the webhook properties                                    *)
(***************************************************************************)
(* autoRegisterMember has not returned yet *)
RegPcs == {"reg_select", "reg_profile", "reg_summary", "reg_groups", "reg_users",
           "reg_link"}

MemberRows(groupId, userId) ==
    {gm \in group_members : gm.group_id = groupId /\ gm.user_id = userId}

(***************************************************************************)
(* C25: whatever the interleaving of the events of a batch, the membership *)
(* table holds at most one row for a (group, user) pair, and exactly one   *)
(* for the pair of an event whose registration has inserted: the           *)
(* check-then-insert of autoRegisterMember never registers a member twice. *)
(***************************************************************************)
C25_MemberRegisteredOnce ==
    \A groupId \in Groups, userId \in Users \cup HookUsers :
        Cardinality(MemberRows(groupId, userId)) <= 1

(***************************************************************************)
(* C26: auto-registration never prevents event handling.  While            *)
(* autoRegisterMember runs the event is not dispatched and nothing is      *)
(* replied; once it has returned the event is dispatched to its handler,   *)
(* whether a query of the store or a lookup of the profile or the group    *)
(* failed inside it or not; a handleEvent that rejects was dispatched and  *)
(* rejects because of its handler (a failing reply call or a failing query *)
(* of the handler).                                                        *)
(***************************************************************************)
C26_RegistrationNeverBlocks ==
    \A e \in BatchOf(webhook) :
        /\ events[e].pc \in RegPcs =>
              ~events[e].dispatched /\ events[e].replies = <<>>
        /\ events[e].pc \notin RegPcs => events[e].dispatched
        /\ events[e].pc = "rejected" =>
              events[e].dispatched /\ events[e].fault \in {"reply", "store"}

(* the INSERT of the registration failed for an image event, which was     *)
(* handled nevertheless: its slip was confirmed                            *)
C26_Witness ==
    \E e \in BatchOf(webhook) :
        /\ events[e].regFault = "store"
        /\ events[e].kind = "image"
        /\ events[e].dispatched
        /\ events[e].pc = "resolved"
        /\ RepliedWith(events[e], "confirmed")

(***************************************************************************)
(* C27: a webhook request gets one HTTP response.  At most one response is *)
(* ever sent; it is 200 only when the handler of every event of the batch  *)
(* has fulfilled and 500 only when a handler has rejected; once every      *)
(* handler has fulfilled or one has rejected the response follows.  The    *)
(* response step writes nothing, no step takes back a paid flag or a       *)
(* membership row, and a handler of the batch that is about to write is    *)
(* not stopped by the rejection of another one or by the response.         *)
(***************************************************************************)
C27_OneResponsePerRequest ==
    /\ [](/\ webhook.status = "idle" => BatchOf(webhook) = {}
          /\ webhook.status = "pending" => webhook.responses = <<>>
          /\ webhook.status = "responded" =>
                /\ Len(webhook.responses) = 1
                /\ webhook.responses[1] = 200 =>
                      \A e \in BatchOf(webhook) : events[e].pc = "resolved"
                /\ webhook.responses[1] = 500 =>
                      \E e \in BatchOf(webhook) : events[e].pc = "rejected"
          /\ \A e \in BatchOf(webhook) :
                events[e].pc = "marking" => ENABLED PaidMarked(e, TRUE))
    /\ [][/\ (webhook.status = "pending" /\ webhook' # webhook) =>
                UNCHANGED <<group_members, bills, bill_participants, events>>
          /\ group_members \subseteq group_members'
          /\ \A p \in 1..Len(bill_participants) :
                bill_participants[p].paid => bill_participants'[p].paid]_vars
    /\ ((webhook.status = "pending"
            /\ PromiseAll({events[e].pc : e \in BatchOf(webhook)}) # {})
        ~> (webhook.status = "responded"))

(* the request was answered 500 for the rejection of one handler while     *)
(* another handler of the batch is still to mark its obligation paid       *)
C27_Witness ==
    /\ webhook.status = "responded"
    /\ webhook.responses = <<500>>
    /\ \E e \in BatchOf(webhook) : events[e].pc = "marking"
    /\ \E e \in BatchOf(webhook) : events[e].pc = "rejected"

(***************************************************************************)
(* C28: a /status event during which a query of the store failed is        *)
(* answered 'Failed to retrieve bill status', and the answer 'No bills     *)
(* found for this group' is given only for a group without a bill.         *)
(***************************************************************************)
C28_StatusFailureIsReported ==
    \A e \in BatchOf(webhook) :
        events[e].kind = "status" =>
            /\ (events[e].statusFault = "store" /\ Settled(events[e]))
                  => RepliedWith(events[e], "status_failed")
            /\ RepliedWith(events[e], "no_bills")
                  => LatestBillRows(events[e].groupId) = {}

(***************************************************************************)
(* Vocabulary of the bill request properties                               *)
(***************************************************************************)
(* the body is well formed and asks for a bill in its group *)
ValidBut(body) ==
    /\ body.groupId = "g1" /\ body.title = "dinner"
    /\ body.payType \in {"equal", "each"}

(* some selected member has no row in the group of the request *)
SelectsNonMember(body) ==
    \E i \in DOMAIN body.memberIds.items :
        ~\E gm \in group_members :
            gm.id = body.memberIds.items[i] /\ gm.group_id = body.groupId

(***************************************************************************)
(* C22: in every reachable state every obligation row, committed or        *)
(* inserted by the open transaction, has a due amount strictly greater     *)
(* than 0, and so has the total of every bill: bill creation rejects a     *)
(* total that is missing, non-numeric, zero or negative and an empty       *)
(* member list.                                                            *)
(***************************************************************************)
C22_DueAmountIsPositive ==
    /\ \A p \in DOMAIN bill_participants : bill_participants[p].amount_due > 0
    /\ \A b \in DOMAIN bills : bills[b].total > 0
    /\ tx.status # "idle" => \A r \in DOMAIN tx.rows : tx.rows[r].amount_due > 0

(* a bill split equally between two members exists and a request for a     *)
(* negative total has just been rejected                                   *)
C22_Witness ==
    /\ tx.status = "rejected"
    /\ ValidBut(tx.body)
    /\ tx.body.amount = JNumber(0 - 200)
    /\ tx.body.memberIds = ArrayOf(<<1, 2>>)
    /\ \E p \in DOMAIN bill_participants :
          /\ bill_participants[p].amount_due = 100
          /\ BillOf(bill_participants[p]).pay_type = "equal"

(***************************************************************************)
(* C29: once the transaction of a bill request has committed, a failure to *)
(* build or to send the group notification neither rolls the bill back nor *)
(* changes the HTTP result: the bill and all its obligation rows stay in   *)
(* the tables, the request is never answered 500, and a request whose      *)
(* notification failed is answered with the success response.              *)
(***************************************************************************)
C29_NotificationFailureIsHarmless ==
    /\ [](tx.status \in {"committed", "notifying", "responded"} =>
            /\ \A i \in DOMAIN tx.bill : tx.bill[i] \in Range(bills)
            /\ Len(tx.rows) = Len(tx.request.memberIds)
            /\ \A r \in DOMAIN tx.rows : tx.rows[r] \in Range(bill_participants)
            /\ tx.notifyFault # "none" => HttpStatus(tx) = 200)
    /\ [][tx.status \in {"committed", "notifying"} =>
            /\ tx'.status \in {"committed", "notifying", "responded"}
            /\ bills' = bills /\ bill_participants' = bill_participants]_vars

(* the push of the notification failed after a bill for two members was    *)
(* committed: the request was answered with the success response           *)
C29_Witness ==
    /\ tx.status = "responded"
    /\ tx.notifyFault = "push"
    /\ HttpStatus(tx) = 200
    /\ Len(tx.rows) = 2
    /\ \A r \in DOMAIN tx.rows : tx.rows[r] \in Range(bill_participants)

(***************************************************************************)
(* C30: a bill request with a missing groupId, title, payType or amount,   *)
(* with memberIds that are empty or no array, with an amount that is not   *)
(* numeric or not positive, with a pay type other than 'equal' and 'each', *)
(* or with a selected member that is not in the group is answered 400; a   *)
(* request answered 400 leaves the bills and the obligation rows exactly   *)
(* as they were when it arrived and sends no group notification.           *)
(***************************************************************************)
C30_RejectionChangesNothing ==
    tx.status # "idle" =>
        /\ (\/ tx.body.groupId = "" \/ tx.body.title = "" \/ tx.body.payType = ""
            \/ Falsy(tx.body.amount)
            \/ ~tx.body.memberIds.array \/ tx.body.memberIds.items = <<>>
            \/ IsNaN(tx.body.amount) \/ ToNumber(tx.body.amount) <= 0
            \/ tx.body.payType \notin {"equal", "each"}
            \/ SelectsNonMember(tx.body))
              => HttpStatus(tx) = 400
        /\ HttpStatus(tx) = 400 =>
              /\ bills = tx.before[1]
              /\ bill_participants = tx.before[2]
              /\ tx.bill = <<>> /\ tx.rows = <<>>
              /\ tx.pushes = 0

(* a group that has a bill already: a request that selects a member of     *)
(* another group was answered 400                                          *)
C30_Witness ==
    /\ HttpStatus(tx) = 400
    /\ ValidBut(tx.body)
    /\ tx.body.amount = JNumber(200)
    /\ tx.body.memberIds = ArrayOf(<<1, 3>>)
    /\ Len(bills) = 1
    /\ bill_participants # <<>>

(***************************************************************************)
(* C23: in every reachable state a bill has at most one obligation row per *)
(* payer and the payer of every obligation row is a member of the group of *)
(* its bill: a request that selects a member twice or selects someone who  *)
(* is not in the group creates nothing.                                    *)
(***************************************************************************)
C23_OneObligationPerPayer ==
    /\ \A p, q \in DOMAIN bill_participants :
          (p # q /\ bill_participants[p].bill_id = bill_participants[q].bill_id)
              => PayerOf(bill_participants[p]) # PayerOf(bill_participants[q])
    /\ \A p \in DOMAIN bill_participants :
          \E gm \in group_members :
              /\ gm.id = bill_participants[p].member_id
              /\ gm.group_id = BillOf(bill_participants[p]).group_id

(***************************************************************************)
(* C31: a bill request that acquired a pooled connection releases it       *)
(* exactly once and sends exactly one HTTP response on every path: never   *)
(* more than one of either, and one of each when the request has ended,    *)
(* whether it was rejected by the validation or by the member check,       *)
(* succeeded, or failed, a failure of the ROLLBACK itself included.        *)
(***************************************************************************)
C31_OneReleaseOneResponse ==
    tx.status # "idle" =>
        /\ tx.released <= 1
        /\ Len(tx.responses) <= 1
        /\ tx.status \in {"rejected", "responded", "rolled_back", "failed"} =>
              tx.released = 1 /\ Len(tx.responses) = 1

(***************************************************************************)
(* C32: the serverless webhook handler handles no event unless the request *)
(* is a POST whose signature validates against the channel secret.  A      *)
(* request of another method is answered 405 and a POST with an invalid    *)
(* signature 401, with that one response; none of their events is ever     *)
(* handled, so no reply is sent, and neither the step that answers such a  *)
(* request nor any later step registers a member or changes an obligation. *)
(* Events are handled only for a POST with a valid signature, which is     *)
(* answered neither 405 nor 401.                                           *)
(***************************************************************************)
C32_GateBeforeEvents ==
    /\ [](webhook.status # "idle" =>
            IF webhook.method # "POST"
            THEN /\ webhook.responses = <<405>>
                 /\ BatchOf(webhook) = {} /\ events = <<>>
            ELSE IF ~validateSignature(webhook.body, ChannelSecret, webhook.signature)
            THEN /\ webhook.responses = <<401>>
                 /\ BatchOf(webhook) = {} /\ events = <<>>
            ELSE /\ \A i \in 1..Len(webhook.responses) :
                        webhook.responses[i] \notin {401, 405}
                 /\ Len(events) = Len(webhook.body))
    /\ [][(/\ webhook'.status # "idle"
           /\ \/ webhook'.method # "POST"
              \/ ~validateSignature(webhook'.body, ChannelSecret, webhook'.signature))
          => UNCHANGED <<group_members, bill_participants, events>>]_vars

(* a POST signed with another key was answered 401 although its batch      *)
(* carried the slip image of a member who owes a share and an event of a   *)
(* user who is not a member of the group yet                               *)
C32_Witness ==
    /\ webhook.status = "responded"
    /\ webhook.method = "POST"
    /\ webhook.signature = SignatureOf("guess", webhook.body)
    /\ webhook.responses = <<401>>
    /\ \E i \in DOMAIN webhook.body :
          /\ webhook.body[i].kind = "image"
          /\ webhook.body[i].groupId = "g1"
          /\ \E p \in 1..Len(bill_participants) :
                /\ ~bill_participants[p].paid
                /\ \E gm \in group_members :
                      /\ gm.id = bill_participants[p].member_id
                      /\ gm.user_id = webhook.body[i].userId
    /\ \E i \in DOMAIN webhook.body :
          /\ webhook.body[i].groupId = "g1"
          /\ ~MemberExists("g1", webhook.body[i].userId)

====
